---- MODULE Spec2Model ----
(***************************************************************************)
(* Model of the go-clang-phoenix generator: the type mapper                *)
(* (typeFromClangType), the naming heuristic (ArrayNameFromLength) and the *)
(* function synthesizer (generateFunction, handleFunctionCursor,          *)
(* generateASTFunction, generateFunctionSliceReturn).  Go strings are      *)
(* TLA+ strings; the Go AST nodes built by generateASTFunction are records *)
(* tagged with the node type.                                              *)
(***************************************************************************)
EXTENDS Integers, Sequences, FiniteSets, TLC

VARIABLES
    lengthCName,  \* argument of ArrayNameFromLength
    pan,          \* outcome of ArrayNameFromLength
    cType,        \* clang.Type handed to typeFromClangType
    typ,          \* outcome of typeFromClangType
    cursor,       \* clang.Cursor handed to handleFunctionCursor
    handled,      \* outcome of handleFunctionCursor
    genArgs,      \* arguments of generateFunction
    f,            \* the *Function under synthesis
    astFunc,      \* outcome of generateASTFunction
    fsr,          \* the *FunctionSliceReturn, and the C struct its accessor reads
    accessor,     \* the accessor generateFunctionSliceReturn wrote, and its run
    done          \* the calls that have returned (or panicked)

vars == <<lengthCName, pan, cType, typ, cursor, handled, genArgs, f, astFunc, fsr, accessor, done>>

(***************************************************************************)
(* Bounds of the model                                                     *)
(***************************************************************************)
MaxMid == 2        \* letters between the prefix and the suffix of a length-field name
MaxLayers == 3     \* pointer / array / unexposed layers over a base type
MaxArgs == 1       \* arguments of a cursor given to handleFunctionCursor
MaxParams == 2     \* parameters of a Function given to generateASTFunction
MaxLength == 2     \* slots of a native array

(***************************************************************************)
(* package strings / unicode                                               *)
(***************************************************************************)
HasPrefix(s, prefix) ==
    Len(s) >= Len(prefix) /\ SubSeq(s, 1, Len(prefix)) = prefix

HasSuffix(s, suffix) ==
    Len(s) >= Len(suffix) /\ SubSeq(s, Len(s) - Len(suffix) + 1, Len(s)) = suffix

TrimPrefix(s, prefix) ==
    IF HasPrefix(s, prefix) THEN SubSeq(s, Len(prefix) + 1, Len(s)) ELSE s

TrimSuffix(s, suffix) ==
    IF HasSuffix(s, suffix) THEN SubSeq(s, 1, Len(s) - Len(suffix)) ELSE s

UpperLetters ==
    {"A", "B", "C", "D", "E", "F", "G", "H", "I", "J", "K", "L", "M",
     "N", "O", "P", "Q", "R", "S", "T", "U", "V", "W", "X", "Y", "Z"}

IsUpper(r) == r \in UpperLetters

(***************************************************************************)
(* Defines all available Go types / C types                                *)
(***************************************************************************)
GoInt8 == "int8"
GoUInt8 == "uint8"
GoInt16 == "int16"
GoUInt16 == "uint16"
GoInt32 == "int32"
GoUInt32 == "uint32"
GoInt64 == "int64"
GoUInt64 == "uint64"
GoFloat32 == "float32"
GoFloat64 == "float64"
GoBool == "bool"

CSChar == "schar"
CUChar == "uchar"
CShort == "short"
CUShort == "ushort"
CInt == "int"
CUInt == "uint"
CLongInt == "long"
CULongInt == "ulong"
CLongLong == "longlong"
CULongLong == "ulonglong"
CFloat == "float"
CDouble == "double"

(***************************************************************************)
(* ArrayNameFromLength.  The outcome is the returned string, or a run-time *)
(* panic when pan[0] is evaluated on an empty string.                      *)
(***************************************************************************)
Returned(s) == [panic |-> FALSE, value |-> s]
Panicked == [panic |-> TRUE, value |-> ""]

ArrayNameFromLength(name) ==
    IF Len(TrimPrefix(name, "num_")) # Len(name)
    THEN Returned(TrimPrefix(name, "num_"))
    ELSE IF Len(TrimPrefix(name, "num")) # Len(name)
    THEN Returned(TrimPrefix(name, "num"))
    ELSE IF Len(TrimPrefix(name, "Num")) # Len(name)
    THEN IF Len(TrimPrefix(name, "Num")) = 0
         THEN Panicked   \* pan[0]: index out of range
         ELSE IF IsUpper(SubSeq(TrimPrefix(name, "Num"), 1, 1))
              THEN Returned(TrimPrefix(name, "Num"))
              ELSE IF Len(TrimSuffix(name, "_size")) # Len(name)
                   THEN Returned(TrimSuffix(name, "_size"))
                   ELSE Returned("")
    ELSE IF Len(TrimSuffix(name, "_size")) # Len(name)
    THEN Returned(TrimSuffix(name, "_size"))
    ELSE Returned("")

(***************************************************************************)
(* clang.Type values.  A native type is a stack of pointer, constant-array *)
(* and unexposed layers over a base type; the base carries what the        *)
(* introspection facility reports for it: its kind, its spelling, the type *)
(* spelling and display name of its declaration, and the kind of its       *)
(* canonical type.                                                         *)
(***************************************************************************)
TK_Pointer == "TK_Pointer"
TK_ConstantArray == "TK_ConstantArray"
TK_Unexposed == "TK_Unexposed"
TK_Typedef == "TK_Typedef"
TK_Record == "TK_Record"
TK_FunctionProto == "TK_FunctionProto"
TK_Enum == "TK_Enum"
TK_Bool == "TK_Bool"
TK_Void == "TK_Void"

IntegerKinds ==
    {"TK_Char_S", "TK_Char_U", "TK_Short", "TK_UShort", "TK_Int", "TK_UInt",
     "TK_Long", "TK_ULong", "TK_LongLong", "TK_ULongLong"}

BuiltinKinds == IntegerKinds \cup {"TK_Float", "TK_Double", TK_Bool, TK_Void}

\* kinds the switch of typeFromClangType has no case for
UnhandledKinds == {"TK_Vector", "TK_Complex"}

BuiltinSpelling(kind) ==
    CASE kind = "TK_Char_S" -> "char"
      [] kind = "TK_Char_U" -> "char"
      [] kind = "TK_Short" -> "short"
      [] kind = "TK_UShort" -> "unsigned short"
      [] kind = "TK_Int" -> "int"
      [] kind = "TK_UInt" -> "unsigned int"
      [] kind = "TK_Long" -> "long"
      [] kind = "TK_ULong" -> "unsigned long"
      [] kind = "TK_LongLong" -> "long long"
      [] kind = "TK_ULongLong" -> "unsigned long long"
      [] kind = "TK_Float" -> "float"
      [] kind = "TK_Double" -> "double"
      [] kind = TK_Bool -> "_Bool"
      [] kind = TK_Void -> "void"
      [] kind = "TK_Vector" -> "__m128"
      [] kind = "TK_Complex" -> "_Complex double"

Base(kind, spelling, decl, display, canon) ==
    [kind |-> kind, spelling |-> spelling, decl |-> decl, display |-> display,
     canon |-> canon]

BaseTypes ==
    {Base(k, BuiltinSpelling(k), "", "", k) : k \in BuiltinKinds \cup UnhandledKinds}
    \cup {Base("TK_Char_S", "const char", "", "", "TK_Char_S"),
          Base(TK_Typedef, "CXString", "CXString", "CXString", TK_Record),
          Base(TK_Typedef, "time_t", "time_t", "time_t", "TK_Long"),
          Base(TK_Typedef, "CXFile", "CXFile", "CXFile", TK_Pointer),
          Base(TK_Typedef, "CXCursorVisitor", "CXCursorVisitor", "CXCursorVisitor", TK_Pointer),
          Base(TK_Typedef, "CXVisitorFn", "CXVisitorFn", "CXVisitorFn", TK_FunctionProto),
          Base(TK_Typedef, "CXErrorKind", "CXErrorKind", "CXErrorKind", TK_Enum),
          Base(TK_Record, "CXCursor", "CXCursor", "CXCursor", TK_Record),
          Base(TK_Enum, "enum CXCursorKind", "enum CXCursorKind", "CXCursorKind", TK_Enum),
          \* a function prototype has no declaration: the null cursor's type
          \* spelling is empty
          Base(TK_FunctionProto, "void (int)", "", "", TK_FunctionProto)}

Layer(kind, size) == [kind |-> kind, size |-> size]

ArraySizes == {4}

Layers ==
    {Layer(TK_Pointer, -1), Layer(TK_Unexposed, -1)}
    \cup {Layer(TK_ConstantArray, n) : n \in ArraySizes}

RECURSIVE LayerSeqs(_)
LayerSeqs(n) ==
    IF n = 0 THEN {<<>>}
    ELSE LayerSeqs(n - 1)
         \cup {<<l>> \o ls : l \in Layers, ls \in {s \in LayerSeqs(n - 1) : Len(s) = n - 1}}

\* the canonical form of a type is never a typedef nor unexposed itself, so
\* neither sits directly under an unexposed layer
IsCanonicalUnder(ls, b) ==
    \A i \in 1..Len(ls) :
        ls[i].kind = TK_Unexposed =>
            IF i = Len(ls) THEN b.kind # TK_Typedef ELSE ls[i + 1].kind # TK_Unexposed

NativeTypesUpTo(n) ==
    {[layers |-> ls, base |-> b] :
       <<ls, b>> \in {x \in LayerSeqs(n) \X BaseTypes : IsCanonicalUnder(x[1], x[2])}}

NativeTypes == NativeTypesUpTo(MaxLayers)

\* cType.Kind()
Kind(t) == IF t.layers = <<>> THEN t.base.kind ELSE Head(t.layers).kind

\* cType.PointeeType(), cType.ArrayElementType(), and the canonical type of an
\* unexposed type: the type one layer down
Inner(t) == [t EXCEPT !.layers = Tail(t.layers)]

\* cType.ArraySize()
ArraySize(t) == Head(t.layers).size

\* cType.CanonicalType().Kind()
RECURSIVE CanonicalKind(_)
CanonicalKind(t) ==
    IF t.layers = <<>> THEN t.base.canon
    ELSE IF Kind(t) = TK_Unexposed THEN CanonicalKind(Inner(t))
    ELSE Kind(t)

\* cType.TypeSpelling()
RECURSIVE TypeSpelling(_)
TypeSpelling(t) ==
    IF t.layers = <<>> THEN t.base.spelling
    ELSE IF Kind(t) = TK_Unexposed THEN TypeSpelling(Inner(t))
    ELSE IF Kind(t) = TK_ConstantArray THEN TypeSpelling(Inner(t)) \o " [4]"
    ELSE IF Inner(t).layers # <<>> /\ Kind(Inner(t)) = TK_Pointer
         THEN TypeSpelling(Inner(t)) \o "*"
         ELSE TypeSpelling(Inner(t)) \o " *"

\* cType.Kind().Spelling()
KindSpelling(kind) == SubSeq(kind, 4, Len(kind))

(***************************************************************************)
(* type Type struct (package generate) and typeFromClangType               *)
(***************************************************************************)
\* Type{}: the zero value
ZeroType ==
    [CName |-> "", CGoName |-> "", GoName |-> "", PointerLevel |-> 0,
     IsPrimitive |-> FALSE, IsArray |-> FALSE, ArraySize |-> 0,
     IsEnumLiteral |-> FALSE, IsFunctionPointer |-> FALSE,
     IsReturnArgument |-> FALSE, IsSlice |-> FALSE, LengthOfSlice |-> "",
     IsPointerComposition |-> FALSE]

\* the literal typ := Type{...} that opens typeFromClangType
NewType(spelling) ==
    [ZeroType EXCEPT !.CName = spelling, !.PointerLevel = 0, !.IsPrimitive = TRUE,
                     !.IsArray = FALSE, !.ArraySize = -1, !.IsEnumLiteral = FALSE,
                     !.IsFunctionPointer = FALSE]

\* library-specific prefix trimming of record, enum and typedef names
TrimLanguagePrefix(name) == TrimPrefix(name, "CX")

\* the (Type, error) pair a call returns; err = "" is the nil error
Resolved(t) == [err |-> "", typ |-> t]
Unhandled(spelling, kind) ==
    [err |-> "unhandled type " \o spelling \o " of kind " \o KindSpelling(kind),
     typ |-> ZeroType]
Failed(err) == [err |-> err, typ |-> ZeroType]

IntegerCGoName(kind) ==
    CASE kind = "TK_Char_S" -> CSChar
      [] kind = "TK_Char_U" -> CUChar
      [] kind = "TK_Int" -> CInt
      [] kind = "TK_Short" -> CShort
      [] kind = "TK_UShort" -> CUShort
      [] kind = "TK_UInt" -> CUInt
      [] kind = "TK_Long" -> CLongInt
      [] kind = "TK_ULong" -> CULongInt
      [] kind = "TK_LongLong" -> CLongLong
      [] kind = "TK_ULongLong" -> CULongLong

\* IntegerGoName with the nominal 32-bit width for int and unsigned int
IntegerGoNameNominal(kind) ==
    CASE kind = "TK_Char_S" -> GoInt8
      [] kind = "TK_Char_U" -> GoUInt8
      [] kind = "TK_Int" -> GoInt32
      [] kind = "TK_Short" -> GoInt16
      [] kind = "TK_UShort" -> GoUInt16
      [] kind = "TK_UInt" -> GoUInt32
      [] kind = "TK_Long" -> GoInt32
      [] kind = "TK_ULong" -> GoUInt32
      [] kind = "TK_LongLong" -> GoInt64
      [] kind = "TK_ULongLong" -> GoUInt64

IntegerGoName(kind) ==
    CASE kind = "TK_Char_S" -> GoInt8
      [] kind = "TK_Char_U" -> GoUInt8
      [] kind = "TK_Int" -> GoInt16
      [] kind = "TK_Short" -> GoInt16
      [] kind = "TK_UShort" -> GoUInt16
      [] kind = "TK_UInt" -> GoUInt16
      [] kind = "TK_Long" -> GoInt32
      [] kind = "TK_ULong" -> GoUInt32
      [] kind = "TK_LongLong" -> GoInt64
      [] kind = "TK_ULongLong" -> GoUInt64

\* case clang.TK_Char_S ... clang.TK_Void
FromBuiltin(t, kind) ==
    IF kind \in IntegerKinds
    THEN [t EXCEPT !.CGoName = IntegerCGoName(kind), !.GoName = IntegerGoName(kind)]
    ELSE IF kind = "TK_Float" THEN [t EXCEPT !.CGoName = CFloat, !.GoName = GoFloat32]
    ELSE IF kind = "TK_Double" THEN [t EXCEPT !.CGoName = CDouble, !.GoName = GoFloat64]
    ELSE IF kind = TK_Bool THEN [t EXCEPT !.GoName = GoBool]
    ELSE [t EXCEPT !.CGoName = "void", !.GoName = "void"]

\* FromConstantArray without "typ.PointerLevel += subTyp.PointerLevel"
FromConstantArrayFlat(t, subTyp, size) ==
    [t EXCEPT !.CGoName = subTyp.CGoName, !.GoName = subTyp.GoName,
              !.IsArray = TRUE, !.ArraySize = size]

\* case clang.TK_ConstantArray, after the element type resolved to subTyp
FromConstantArray(t, subTyp, size) ==
    [t EXCEPT !.CGoName = subTyp.CGoName, !.GoName = subTyp.GoName,
              !.PointerLevel = t.PointerLevel + subTyp.PointerLevel,
              !.IsArray = TRUE, !.ArraySize = size]

\* case clang.TK_Typedef
FromTypedef(t, spelling, decl, canon) ==
    LET typeStr == IF spelling = "CXString" THEN "cxstring"
                   ELSE IF spelling = "time_t" THEN "time.Time"
                   ELSE TrimLanguagePrefix(decl)
        t1 == [t EXCEPT !.IsPrimitive = (spelling = "time_t"),
                        !.CGoName = decl, !.GoName = typeStr]
    IN IF canon = TK_Enum
       THEN [t1 EXCEPT !.IsEnumLiteral = TRUE, !.IsPrimitive = TRUE]
       ELSE t1

\* case clang.TK_Pointer, after the pointee resolved to subTyp
FromPointer(t, subTyp, pointeeCanon) ==
    [t EXCEPT !.PointerLevel = (t.PointerLevel + 1) + subTyp.PointerLevel,
              !.IsFunctionPointer = (pointeeCanon = TK_FunctionProto),
              !.CGoName = subTyp.CGoName, !.GoName = subTyp.GoName,
              !.IsPrimitive = subTyp.IsPrimitive]

\* FromRecord that leaves CGoName empty
FromRecordUnnamed(t, decl) ==
    [t EXCEPT !.GoName = TrimLanguagePrefix(decl), !.IsPrimitive = FALSE]

\* case clang.TK_Record
FromRecord(t, decl) ==
    [t EXCEPT !.CGoName = decl, !.GoName = TrimLanguagePrefix(decl),
              !.IsPrimitive = FALSE]

\* case clang.TK_FunctionProto
FromFunctionProto(t, decl) ==
    [t EXCEPT !.IsFunctionPointer = TRUE, !.CGoName = decl,
              !.GoName = TrimLanguagePrefix(decl)]

\* case clang.TK_Enum
FromEnum(t, display) ==
    [t EXCEPT !.GoName = TrimLanguagePrefix(display), !.IsEnumLiteral = TRUE,
              !.IsPrimitive = TRUE]

\* case clang.TK_Unexposed, after the canonical type resolved to subTyp
FromUnexposed(t, subTyp) ==
    [t EXCEPT !.CGoName = subTyp.CGoName, !.GoName = subTyp.GoName,
              !.PointerLevel = t.PointerLevel + subTyp.PointerLevel,
              !.IsPrimitive = subTyp.IsPrimitive]

\* the kinds the switch has a case for
HandledKinds ==
    BuiltinKinds \cup {TK_ConstantArray, TK_Typedef, TK_Pointer, TK_Record,
                       TK_FunctionProto, TK_Enum, TK_Unexposed}

\* what a case does with the outcome of its recursive call
Propagate(sub, t) == IF sub.err # "" THEN Failed(sub.err) ELSE Resolved(t)

RECURSIVE typeFromClangType(_)
typeFromClangType(t) ==
    LET new == NewType(TypeSpelling(t))
        kind == Kind(t)
    IN  IF kind \in BuiltinKinds THEN Resolved(FromBuiltin(new, kind))
        ELSE IF kind = TK_ConstantArray
        THEN LET sub == typeFromClangType(Inner(t))
             IN Propagate(sub, FromConstantArray(new, sub.typ, ArraySize(t)))
        ELSE IF kind = TK_Typedef
        THEN Resolved(FromTypedef(new, TypeSpelling(t), t.base.decl, CanonicalKind(t)))
        ELSE IF kind = TK_Pointer
        THEN LET sub == typeFromClangType(Inner(t))
             IN Propagate(sub, FromPointer(new, sub.typ, CanonicalKind(Inner(t))))
        ELSE IF kind = TK_Record THEN Resolved(FromRecord(new, t.base.decl))
        ELSE IF kind = TK_FunctionProto THEN Resolved(FromFunctionProto(new, t.base.decl))
        ELSE IF kind = TK_Enum THEN Resolved(FromEnum(new, t.base.display))
        ELSE IF kind = TK_Unexposed
        THEN LET sub == typeFromClangType(Inner(t))
             IN Propagate(sub, FromUnexposed(new, sub.typ))
        ELSE Unhandled(TypeSpelling(t), kind)

(***************************************************************************)
(* type Type (package main), Function, FunctionParameter                   *)
(***************************************************************************)
MainType(name, primitive, cname, isPrimitive, pointerLevel) ==
    [Name |-> name, Primitive |-> primitive, CName |-> cname,
     IsPrimitive |-> isPrimitive, PointerLevel |-> pointerLevel,
     IsReturnArgument |-> FALSE]

ZeroMainType == MainType("", "", "", FALSE, 0)

\* Receiver{}: no receiver declared
NoReceiver == [Name |-> "", Type |-> ZeroMainType]

NoFunction ==
    [Name |-> "", CName |-> "", Parameters |-> <<>>, ReturnType |-> ZeroMainType,
     Receiver |-> NoReceiver, Member |-> ""]

LowerLetters == "abcdefghijklmnopqrstuvwxyz"
UpperLetterSeq == "ABCDEFGHIJKLMNOPQRSTUVWXYZ"

ToLower(r) ==
    IF IsUpper(r)
    THEN LET i == CHOOSE j \in 1..Len(UpperLetterSeq) : SubSeq(UpperLetterSeq, j, j) = r
         IN SubSeq(LowerLetters, i, i)
    ELSE r

ToUpper(r) ==
    IF \E j \in 1..Len(LowerLetters) : SubSeq(LowerLetters, j, j) = r
    THEN LET i == CHOOSE j \in 1..Len(LowerLetters) : SubSeq(LowerLetters, j, j) = r
         IN SubSeq(UpperLetterSeq, i, i)
    ELSE r

\* receiverName: the lower-cased capitals of a type name ("TranslationUnit" -> "tu")
RECURSIVE receiverName(_)
receiverName(typeName) ==
    IF typeName = "" THEN ""
    ELSE LET r == SubSeq(typeName, 1, 1)
             rest == receiverName(SubSeq(typeName, 2, Len(typeName)))
         IN IF IsUpper(r) THEN ToLower(r) \o rest ELSE rest

\* upperFirstCharacter
upperFirstCharacter(s) ==
    IF s = "" THEN "" ELSE ToUpper(SubSeq(s, 1, 1)) \o SubSeq(s, 2, Len(s))

\* trimClangPrefix
trimClangPrefix(name) == TrimPrefix(TrimPrefix(name, "clang_"), "CX")

\* getType: the mapper's descriptor as package main reads it; a native string
\* (const char *) is exposed as a Go string
getType(t) ==
    LET r == typeFromClangType(t)
    IN IF r.err # "" THEN [err |-> r.err, typ |-> ZeroMainType]
       ELSE [err |-> "",
             typ |-> MainType(IF r.typ.CName = "const char *" THEN "string"
                              ELSE r.typ.GoName,
                              IF r.typ.IsPrimitive THEN r.typ.CGoName ELSE "",
                              r.typ.CName, r.typ.IsPrimitive, r.typ.PointerLevel)]

(***************************************************************************)
(* handleFunctionCursor.  A cursor is [Spelling, ResultType, Arguments],   *)
(* each argument [DisplayName, Type].  panic(err) ends the call without a  *)
(* Function.                                                               *)
(***************************************************************************)
\* the FunctionParameter the loop body builds for one argument
parameterOf(param) ==
    LET t == getType(param.Type).typ
    IN [Name |-> IF param.DisplayName = "" THEN receiverName(t.Name)
                 ELSE param.DisplayName,
        CName |-> param.DisplayName,
        Type |-> t]

handleFunctionCursor(c) ==
    IF getType(c.ResultType).err # ""
    THEN [panic |-> TRUE, f |-> NoFunction]
    ELSE IF \E i \in 1..Len(c.Arguments) : getType(c.Arguments[i].Type).err # ""
    THEN [panic |-> TRUE, f |-> NoFunction]
    ELSE [panic |-> FALSE,
          f |-> [NoFunction EXCEPT
                   !.CName = c.Spelling,
                   !.Name = TrimPrefix(c.Spelling, "clang_"),
                   !.ReturnType = getType(c.ResultType).typ,
                   !.Parameters = [i \in 1..Len(c.Arguments) |->
                                      parameterOf(c.Arguments[i])]]]

(***************************************************************************)
(* generateFunction                                                        *)
(***************************************************************************)
\* "(HasPrefix(name, "has") || HasPrefix(name, "is")) && typ.Name == GoInt32"
coercesToBool(name, t) ==
    (HasPrefix(name, "has") \/ HasPrefix(name, "is")) /\ t.Name = GoInt32

generateFunction(name, cname, member, t) ==
    LET receiverType == trimClangPrefix(cname)
        t1 == IF t.IsPrimitive THEN [t EXCEPT !.Primitive = t.Name] ELSE t
        t2 == IF coercesToBool(name, t1) THEN [t1 EXCEPT !.Name = GoBool] ELSE t1
    IN [Name |-> upperFirstCharacter(name),
        CName |-> cname,
        Parameters |-> <<>>,
        ReturnType |-> t2,
        Receiver |-> [Name |-> receiverName(receiverType),
                      Type |-> [ZeroMainType EXCEPT !.Name = receiverType]],
        Member |-> member]

(***************************************************************************)
(* go/ast nodes                                                            *)
(***************************************************************************)
Ident(name) == [node |-> "Ident", Name |-> name]
SelectorExpr(x, sel) == [node |-> "SelectorExpr", X |-> x, Sel |-> Ident(sel)]
CallExpr(fun, args) == [node |-> "CallExpr", Fun |-> fun, Args |-> args]
UnaryExpr(op, x) == [node |-> "UnaryExpr", Op |-> op, X |-> x]
BinaryExpr(x, op, y) == [node |-> "BinaryExpr", X |-> x, Op |-> op, Y |-> y]
CompositeLit(type, elts) == [node |-> "CompositeLit", Type |-> type, Elts |-> elts]
BasicLit(kind, value) == [node |-> "BasicLit", Kind |-> kind, Value |-> value]
Field(names, type) == [node |-> "Field", Names |-> names, Type |-> type]
DeclStmt(name, type) == [node |-> "DeclStmt", Tok |-> "var", Names |-> <<Ident(name)>>, Type |-> type]
DeferStmt(call) == [node |-> "DeferStmt", Call |-> call]
AssignStmt(lhs, rhs) == [node |-> "AssignStmt", Lhs |-> <<Ident(lhs)>>, Tok |-> ":=", Rhs |-> <<rhs>>]
ExprStmt(x) == [node |-> "ExprStmt", X |-> x]
ReturnStmt(results) == [node |-> "ReturnStmt", Results |-> results]

\* the closures of generateASTFunction
accessMember(variable, member) == SelectorExpr(Ident(variable), member)
doCall(variable, method, args) == CallExpr(accessMember(variable, method), args)
doCType(c) == accessMember("C", c)
doCCast(type, args) == doCall("C", type, args)
EmptyLine == ExprStmt(CallExpr(Ident("REMOVE"), <<>>))

RECURSIVE Concat(_)
Concat(seqs) == IF seqs = <<>> THEN <<>> ELSE Head(seqs) \o Concat(Tail(seqs))

(***************************************************************************)
(* generateASTFunction: the first loop (function parameters and return     *)
(* arguments), per parameter                                               *)
(***************************************************************************)
\* the Field added to astFunc.Type.Results.List for a return argument
returnArgumentField(p) ==
    Field(<<>>, Ident(IF p.Type.Name = "cxstring" THEN "string" ELSE p.Type.Name))

\* the statements declaring a return argument's variable
returnArgumentDecl(p) ==
    <<DeclStmt(p.Name, IF p.Type.Primitive # "" THEN doCType(p.Type.Primitive)
                       ELSE Ident(p.Type.Name))>>
    \o (IF p.Type.Name = "cxstring" THEN <<DeferStmt(doCall(p.Name, "Dispose", <<>>))>>
        ELSE <<>>)

\* the expression added to retur.Results for a return argument
returnArgumentResult(p) ==
    IF p.Type.Primitive # "" THEN CallExpr(Ident(p.Type.Name), <<Ident(p.Name)>>)
    ELSE IF p.Type.Name = "cxstring" THEN doCall(p.Name, "String", <<>>)
    ELSE Ident(p.Name)

\* the Field added to astFunc.Type.Params.List for an input parameter
parameterField(p) == Field(<<Ident(p.Name)>>, Ident(p.Type.Name))

(***************************************************************************)
(* generateASTFunction: the second loop (arguments of the C call)          *)
(***************************************************************************)
\* "p.Type.Primitive != "" && p.Type.CName == "const char *""
needsCString(p) == p.Type.Primitive # "" /\ p.Type.CName = "const char *"

\* cStringStatements without the deferred C.free
cStringStatementsLeaking(p) ==
    IF needsCString(p)
    THEN <<AssignStmt("c_" \o p.Name, doCCast("CString", <<Ident(p.Name)>>))>>
    ELSE <<>>

\* the Go to C conversion statements added before the call
cStringStatements(p) ==
    IF needsCString(p)
    THEN <<AssignStmt("c_" \o p.Name, doCCast("CString", <<Ident(p.Name)>>)),
           DeferStmt(doCCast("free", <<doCall("unsafe", "Pointer", <<Ident("c_" \o p.Name)>>)>>))>>
    ELSE <<>>

\* callArgument without the address-of of a return argument
callArgumentByValue(p) ==
    IF p.Type.Primitive # ""
    THEN IF p.Type.CName = "const char *" THEN Ident("c_" \o p.Name)
         ELSE IF p.Type.Primitive = "cxstring" THEN accessMember(p.Name, "c")
         ELSE IF p.Type.IsReturnArgument THEN Ident(p.Name)
         ELSE doCCast(p.Type.Primitive, <<Ident(p.Name)>>)
    ELSE accessMember(p.Name, "c")

\* the expression appended to call.Args
callArgument(p) ==
    LET pf == IF p.Type.Primitive # ""
              THEN IF p.Type.CName = "const char *" THEN Ident("c_" \o p.Name)
                   ELSE IF p.Type.Primitive = "cxstring" THEN accessMember(p.Name, "c")
                   ELSE IF p.Type.IsReturnArgument THEN Ident(p.Name)
                   ELSE doCCast(p.Type.Primitive, <<Ident(p.Name)>>)
              ELSE accessMember(p.Name, "c")
    IN IF p.Type.IsReturnArgument THEN UnaryExpr("&", pf) ELSE pf

(***************************************************************************)
(* generateASTFunction: "Check if we need to add a return"                 *)
(***************************************************************************)
\* appendPrimary putting the function return type first
prependPrimary(list, x) == <<x>> \o list

\* where the function return type goes in astFunc.Type.Results.List, and the
\* primary result in retur.Results: after the return arguments
appendPrimary(list, x) == Append(list, x)

\* changeReturnTypeToString on the first entry instead of the last
changeFirstReturnTypeToString(list) ==
    [list EXCEPT ![1] = Field(<<>>, Ident("string"))]

\* "Change the return type to "string""
changeReturnTypeToString(list) ==
    [list EXCEPT ![Len(list)] = Field(<<>>, Ident("string"))]

\* resultFields that never adds the function return type
resultFieldsOfArguments(rt, argumentFields) == argumentFields

\* astFunc.Type.Results.List once the return section has run
resultFields(rt, argumentFields) ==
    LET list == IF rt.Name # "void"
                THEN appendPrimary(argumentFields, Field(<<>>, Ident(rt.Name)))
                ELSE argumentFields
    IN IF rt.Name = "cxstring" THEN changeReturnTypeToString(list) ELSE list

\* the statements added for the primary result and the expressions added to
\* retur.Results, by the if / else-if chain on f.ReturnType
primaryReturn(rt, call, hasReturnArguments) ==
    IF rt.Name = "bool" /\ rt.Primitive # ""
    THEN [stmts |-> <<AssignStmt("o", call), EmptyLine>>,
          results |-> <<BinaryExpr(Ident("o"), "!=",
                                   doCCast(rt.Primitive, <<BasicLit("INT", "0")>>))>>]
    ELSE IF rt.Name = "string"
    THEN [stmts |-> <<>>, results |-> <<doCCast("GoString", <<call>>)>>]
    ELSE IF rt.Name = "cxstring"
    THEN [stmts |-> <<AssignStmt("o", CompositeLit(Ident("cxstring"), <<call>>)),
                      DeferStmt(doCall("o", "Dispose", <<>>)),
                      EmptyLine>>,
          results |-> <<doCall("o", "String", <<>>)>>]
    ELSE IF rt.Name = "time.Time"
    THEN [stmts |-> <<>>,
          results |-> <<doCall("time", "Unix",
                               <<CallExpr(Ident("int64"), <<call>>), BasicLit("INT", "0")>>)>>]
    ELSE IF rt.Name = "void"
    THEN [stmts |-> <<ExprStmt(call), EmptyLine>>, results |-> <<>>]
    ELSE LET convCall == IF rt.Primitive = ""
                         THEN CompositeLit(Ident(rt.Name), <<call>>)
                         ELSE CallExpr(Ident(rt.Name), <<call>>)
         IN IF hasReturnArguments
            THEN [stmts |-> <<AssignStmt("o", convCall), EmptyLine>>,
                  results |-> <<Ident("o")>>]
            ELSE [stmts |-> <<>>, results |-> <<convCall>>]

(***************************************************************************)
(* generateASTFunction.  The outcome holds the FuncDecl built (astFunc),   *)
(* the locals call and retur, and the parameters of f as the call leaves   *)
(* them (the first one renamed to the receiver).                           *)
(***************************************************************************)
\* "if i == 0 && f.Receiver.Name != "" { continue }"
skipsReceiver(fn, i) == i = 1 /\ fn.Receiver.Name # ""

\* f.Parameters after "f.Parameters[0].Name = f.Receiver.Name"
renamedParameters(fn) ==
    IF Len(fn.Parameters) # 0 /\ fn.Receiver.Name # ""
    THEN [fn.Parameters EXCEPT ![1].Name = fn.Receiver.Name]
    ELSE fn.Parameters

\* receiverFields without the check of len(f.Parameters)
receiverFieldsAlways(fn) ==
    IF fn.Receiver.Name # ""
    THEN <<Field(<<Ident(fn.Receiver.Name)>>, Ident(fn.Receiver.Type.Name))>>
    ELSE <<>>

\* astFunc.Recv
receiverFields(fn) ==
    IF fn.Receiver.Name # "" /\ Len(fn.Parameters) > 0
    THEN <<Field(<<Ident(fn.Receiver.Name)>>, Ident(fn.Receiver.Type.Name))>>
    ELSE <<>>

generateASTFunction(fn) ==
    LET ps == renamedParameters(fn)
        n == Len(ps)
        isReturnArgument(i) == ~skipsReceiver(fn, i) /\ ps[i].Type.IsReturnArgument
        hasReturnArguments == \E i \in 1..n : isReturnArgument(i)
        goToCTypeConversions == \E i \in 1..n : needsCString(ps[i])
        argumentFields ==
            Concat([i \in 1..n |-> IF isReturnArgument(i)
                                   THEN <<returnArgumentField(ps[i])>> ELSE <<>>])
        argumentDecls ==
            Concat([i \in 1..n |-> IF isReturnArgument(i)
                                   THEN returnArgumentDecl(ps[i]) ELSE <<>>])
        argumentResults ==
            Concat([i \in 1..n |-> IF isReturnArgument(i)
                                   THEN <<returnArgumentResult(ps[i])>> ELSE <<>>])
        params ==
            Concat([i \in 1..n |-> IF skipsReceiver(fn, i) \/ isReturnArgument(i)
                                   THEN <<>> ELSE <<parameterField(ps[i])>>])
        conversions == Concat([i \in 1..n |-> cStringStatements(ps[i])])
        call == doCCast(fn.CName, [i \in 1..n |-> callArgument(ps[i])])
        prologue ==
            argumentDecls \o (IF hasReturnArguments THEN <<EmptyLine>> ELSE <<>>)
            \o conversions \o (IF goToCTypeConversions THEN <<EmptyLine>> ELSE <<>>)
        needsReturn == fn.ReturnType.Name # "void" \/ hasReturnArguments
        primary == primaryReturn(fn.ReturnType, call, hasReturnArguments)
        retur == ReturnStmt(IF needsReturn
                            THEN argumentResults \o primary.results
                            ELSE <<>>)
    IN [astFunc |->
           [Name |-> Ident(fn.Name),
            Recv |-> receiverFields(fn),
            Params |-> params,
            Results |-> IF needsReturn THEN resultFields(fn.ReturnType, argumentFields)
                        ELSE <<>>,
            Body |-> IF needsReturn
                     THEN prologue \o primary.stmts \o <<retur>>
                     ELSE prologue \o <<ExprStmt(call)>>],
        call |-> call,
        retur |-> retur,
        Parameters |-> ps]

NoAST ==
    [astFunc |-> [Name |-> Ident(""), Recv |-> <<>>, Params |-> <<>>,
                  Results |-> <<>>, Body |-> <<>>],
     call |-> CallExpr(Ident(""), <<>>),
     retur |-> ReturnStmt(<<>>),
     Parameters |-> <<>>]

(***************************************************************************)
(* generateFunctionSliceReturn.  The accessor that templateGenerateReturnSlice *)
(* writes is a record of the parts the template fills in; the C struct it  *)
(* reads is a function from field names to field values.                   *)
(***************************************************************************)
FunctionSliceReturn(name, receiver, member, sizeMember, cElementType, elementType, isPrimitive, arrayDimensions, arraySize) ==
    [Name |-> name, Receiver |-> receiver, Member |-> member,
     SizeMember |-> sizeMember, CElementType |-> cElementType,
     ElementType |-> elementType, IsPrimitive |-> isPrimitive,
     ArrayDimensions |-> arrayDimensions, ArraySize |-> arraySize]

\* "func (r T) Name() []{{if eq $.ArrayDimensions 2}}*{{end}}{{$.ElementType}}"
sliceResultType(fs) == [Pointer |-> fs.ArrayDimensions = 2, Name |-> fs.ElementType]

\* "length := {{if ne $.ArraySize -1}}{{$.ArraySize}}{{else}}int(r.c.{{$.SizeMember}}){{end}}"
sliceLength(fs) ==
    IF fs.ArraySize # -1
    THEN [Literal |-> TRUE, Value |-> fs.ArraySize, Member |-> ""]
    ELSE [Literal |-> FALSE, Value |-> 0, Member |-> fs.SizeMember]

\* "goslice := (*[1 << 30]{{...}}C.{{$.CElementType}})(unsafe.Pointer(&r.c.{{$.Member}}))[:length:length]"
sliceView(fs) ==
    [Pointer |-> fs.ArrayDimensions = 2 \/ fs.ElementType = "unsafe.Pointer",
     CName |-> fs.CElementType,
     AddressOf |-> fs.Member]

\* "sc = append(sc, {{&}}{{$.ElementType}}( {{*}}goslice[is] ))", with braces in
\* place of the parentheses for an element that is not primitive
sliceElement(fs) ==
    [AddressOf |-> fs.ArrayDimensions = 2,
     Name |-> fs.ElementType,
     Literal |-> ~fs.IsPrimitive,
     Deref |-> fs.ArrayDimensions = 2]

templateGenerateReturnSlice(fs) ==
    [Recv |-> fs.Receiver, Name |-> fs.Name, Result |-> sliceResultType(fs),
     Length |-> sliceLength(fs), View |-> sliceView(fs), Element |-> sliceElement(fs)]

generateFunctionSliceReturn(fs) == templateGenerateReturnSlice(fs)

NoSliceReturn ==
    [f |-> FunctionSliceReturn("", NoReceiver, "", "", "", "", FALSE, 0, -1),
     c |-> <<>>]

NoAccessor ==
    [code |-> generateFunctionSliceReturn(NoSliceReturn.f),
     pc |-> "none", length |-> 0, is |-> 0, sc |-> <<>>]

(***************************************************************************)
(* Inputs                                                                  *)
(***************************************************************************)
NameAlphabet == {"x", "F", "_"}

RECURSIVE Words(_)
Words(n) ==
    IF n = 0 THEN {""}
    ELSE Words(n - 1) \cup {w \o a : w \in Words(n - 1), a \in NameAlphabet}

NamePrefixes == {"", "num_", "num", "Num", "Nu"}
NameSuffixes == {"", "_size", "size"}

\* names of struct length fields
LengthNames ==
    {p \o w \o s : p \in NamePrefixes, w \in Words(MaxMid), s \in NameSuffixes}
    \cup {"num_elements", "numItems", "NumFiles", "Numx", "buffer_size", "count"}

\* arguments of a native function, as the cursor reports them
ArgumentInputs ==
    {[DisplayName |-> "file", Type |-> [layers |-> <<>>, base |-> Base(TK_Typedef, "CXFile", "CXFile", "CXFile", TK_Pointer)]],
     [DisplayName |-> "", Type |-> [layers |-> <<>>, base |-> Base(TK_Record, "CXCursor", "CXCursor", "CXCursor", TK_Record)]],
     [DisplayName |-> "v", Type |-> [layers |-> <<Layer(TK_Pointer, -1)>>, base |-> Base("TK_Vector", "__m128", "", "", "TK_Vector")]]}

RECURSIVE ArgumentLists(_)
ArgumentLists(n) ==
    IF n = 0 THEN {<<>>}
    ELSE ArgumentLists(n - 1)
         \cup {Append(as, a) : as \in {s \in ArgumentLists(n - 1) : Len(s) = n - 1},
                               a \in ArgumentInputs}

FunctionSpellings == {"clang_getFile", "clang_isFileMultipleIncludeGuarded"}

NoCursor == [Spelling |-> "", ResultType |-> [layers |-> <<>>, base |-> Base(TK_Void, "void", "", "", TK_Void)], Arguments |-> <<>>]

NotCalled == [panic |-> FALSE, value |-> ""]
NotResolved == [err |-> "", typ |-> ZeroType]
NotHandled == [panic |-> FALSE, f |-> NoFunction]
NoGenArgs == [name |-> "", cname |-> "", member |-> "", typ |-> ZeroMainType]

(***************************************************************************)
(* The naming heuristic: one call of ArrayNameFromLength                   *)
(***************************************************************************)
InitArrayName ==
    /\ lengthCName \in LengthNames
    /\ pan = NotCalled
    /\ cType = NoCursor.ResultType
    /\ typ = NotResolved
    /\ cursor = NoCursor
    /\ handled = NotHandled
    /\ genArgs = NoGenArgs
    /\ f = NoFunction
    /\ astFunc = NoAST
    /\ fsr = NoSliceReturn
    /\ accessor = NoAccessor
    /\ done = {}

CallArrayNameFromLength ==
    /\ "ArrayNameFromLength" \notin done
    /\ pan' = ArrayNameFromLength(lengthCName)
    /\ done' = done \cup {"ArrayNameFromLength"}
    /\ UNCHANGED <<lengthCName, cType, typ, cursor, handled, genArgs, f, astFunc, fsr, accessor>>

NextArrayName == CallArrayNameFromLength

SpecArrayName == InitArrayName /\ [][NextArrayName]_vars

(***************************************************************************)
(* The type mapper: one call of typeFromClangType on a native type, and    *)
(* one call of handleFunctionCursor on a cursor whose result has that type *)
(***************************************************************************)
InitResolve ==
    /\ cType \in NativeTypes
    /\ typ = NotResolved
    /\ cursor \in {[Spelling |-> s, ResultType |-> cType, Arguments |-> as] :
                     s \in FunctionSpellings, as \in ArgumentLists(MaxArgs)}
    /\ handled = NotHandled
    /\ lengthCName = ""
    /\ pan = NotCalled
    /\ genArgs = NoGenArgs
    /\ f = NoFunction
    /\ astFunc = NoAST
    /\ fsr = NoSliceReturn
    /\ accessor = NoAccessor
    /\ done = {}

CallTypeFromClangType ==
    /\ "typeFromClangType" \notin done
    /\ typ' = typeFromClangType(cType)
    /\ done' = done \cup {"typeFromClangType"}
    /\ UNCHANGED <<lengthCName, pan, cType, cursor, handled, genArgs, f, astFunc, fsr, accessor>>

CallHandleFunctionCursor ==
    /\ "handleFunctionCursor" \notin done
    /\ handled' = handleFunctionCursor(cursor)
    /\ f' = handleFunctionCursor(cursor).f
    /\ done' = done \cup {"handleFunctionCursor"}
    /\ UNCHANGED <<lengthCName, pan, cType, typ, cursor, genArgs, astFunc, fsr, accessor>>

NextResolve == CallTypeFromClangType \/ CallHandleFunctionCursor

SpecResolve == InitResolve /\ [][NextResolve]_vars

(***************************************************************************)
(* generateFunction on the mapped type of a struct member                  *)
(***************************************************************************)
GetterNames ==
    {"isImplicit", "hasAttributes", "numAttributes", "kind", "is", "has", "Is", "ha", "i"}

InitFunction ==
    /\ cType \in {t \in NativeTypesUpTo(1) : getType(t).err = ""}
    /\ genArgs \in {[name |-> nm, cname |-> "CXIdxDeclInfo", member |-> nm,
                     typ |-> getType(cType).typ] : nm \in GetterNames}
    /\ f = NoFunction
    /\ typ = NotResolved
    /\ cursor = NoCursor
    /\ handled = NotHandled
    /\ lengthCName = ""
    /\ pan = NotCalled
    /\ astFunc = NoAST
    /\ fsr = NoSliceReturn
    /\ accessor = NoAccessor
    /\ done = {}

CallGenerateFunction ==
    /\ "generateFunction" \notin done
    /\ f' = generateFunction(genArgs.name, genArgs.cname, genArgs.member, genArgs.typ)
    /\ done' = done \cup {"generateFunction"}
    /\ UNCHANGED <<lengthCName, pan, cType, typ, cursor, handled, genArgs, astFunc, fsr, accessor>>

NextFunction == CallGenerateFunction

SpecFunction == InitFunction /\ [][NextFunction]_vars

(***************************************************************************)
(* generateASTFunction on a Function                                       *)
(***************************************************************************)
ParameterType(name, primitive, cname, isPrimitive, pointerLevel, isReturnArgument) ==
    [MainType(name, primitive, cname, isPrimitive, pointerLevel)
        EXCEPT !.IsReturnArgument = isReturnArgument]

\* a return argument is a pointer the native function writes through, so a
\* const-qualified pointee is never one
ParameterTypes ==
    {ParameterType("uint16", "uint", "unsigned int", TRUE, 0, FALSE),
     ParameterType("uint16", "uint", "unsigned int *", TRUE, 1, TRUE),
     ParameterType("string", "schar", "const char *", TRUE, 1, FALSE),
     ParameterType("int8", "schar", "char *", TRUE, 1, FALSE),
     ParameterType("int8", "schar", "char *", TRUE, 1, TRUE),
     ParameterType("cxstring", "", "CXString", FALSE, 0, FALSE),
     ParameterType("cxstring", "", "CXString *", FALSE, 1, TRUE),
     ParameterType("cxstring", "cxstring", "CXString", TRUE, 0, FALSE),
     ParameterType("File", "", "CXFile", FALSE, 0, FALSE),
     ParameterType("File", "", "CXFile *", FALSE, 1, TRUE),
     ParameterType("CursorKind", "enum_CXCursorKind", "enum CXCursorKind", TRUE, 0, FALSE)}

\* the i-th parameter is named by the i-th letter
ParameterName(i) == SubSeq(LowerLetters, i, i)

RECURSIVE ParameterLists(_)
ParameterLists(n) ==
    IF n = 0 THEN {<<>>}
    ELSE ParameterLists(n - 1)
         \cup {Append(ps, [Name |-> ParameterName(n), CName |-> ParameterName(n), Type |-> t]) :
                 ps \in {s \in ParameterLists(n - 1) : Len(s) = n - 1},
                 t \in ParameterTypes}

ReturnTypes ==
    {MainType("void", "void", "void", TRUE, 0),
     MainType("bool", "int32", "long", TRUE, 0),
     MainType("bool", "", "_Bool", TRUE, 0),
     MainType("string", "schar", "const char *", TRUE, 1),
     MainType("cxstring", "", "CXString", FALSE, 0),
     MainType("time.Time", "time_t", "time_t", TRUE, 0),
     MainType("File", "", "CXFile", FALSE, 0),
     MainType("uint16", "uint", "unsigned int", TRUE, 0)}

\* the library types a method can be declared on
ReceiverTypeNames == {"File", "CursorKind"}

\* the receivers the caller may declare for a parameter list: none, or the one
\* derived from the type of the first parameter; a Function without parameters
\* may carry the receiver generateFunction derives from a struct name
Receivers(ps) ==
    {NoReceiver}
    \cup (IF ps = <<>>
          THEN {[Name |-> "tu", Type |-> [ZeroMainType EXCEPT !.Name = "TranslationUnit"]]}
          ELSE IF ps[1].Type.Name \in ReceiverTypeNames
          THEN {[Name |-> receiverName(ps[1].Type.Name),
                 Type |-> [ZeroMainType EXCEPT !.Name = ps[1].Type.Name]]}
          ELSE {})

Functions ==
    UNION {{[Name |-> "File", CName |-> "clang_getFile", Parameters |-> ps,
             ReturnType |-> rt, Receiver |-> r, Member |-> ""] :
               r \in Receivers(ps), rt \in ReturnTypes} :
           ps \in ParameterLists(MaxParams)}

InitAST ==
    /\ f \in Functions
    /\ astFunc = NoAST
    /\ fsr = NoSliceReturn
    /\ accessor = NoAccessor
    /\ genArgs = NoGenArgs
    /\ cType = NoCursor.ResultType
    /\ typ = NotResolved
    /\ cursor = NoCursor
    /\ handled = NotHandled
    /\ lengthCName = ""
    /\ pan = NotCalled
    /\ done = {}

CallGenerateASTFunction ==
    /\ "generateASTFunction" \notin done
    /\ astFunc' = generateASTFunction(f)
    /\ f' = [f EXCEPT !.Parameters = renamedParameters(f)]
    /\ done' = done \cup {"generateASTFunction"}
    /\ UNCHANGED <<lengthCName, pan, cType, typ, cursor, handled, genArgs, fsr, accessor>>

NextAST == CallGenerateASTFunction

SpecAST == InitAST /\ [][NextAST]_vars

(***************************************************************************)
(* Specification: generateFunctionSliceReturn writes an accessor, and the  *)
(* accessor runs on a C struct                                             *)
(***************************************************************************)
\* the values of the elements of a native array
ElementValues == {"x", "y"}

\* a slot of a native array: the element itself in one dimension, a pointer
\* to it in two
Slots(dimensions) ==
    IF dimensions = 2 THEN {[ptr |-> v] : v \in ElementValues} ELSE ElementValues

RECURSIVE SlotSeqs(_, _)
SlotSeqs(dimensions, n) ==
    IF n = 0 THEN {<<>>}
    ELSE {Append(ss, x) : ss \in SlotSeqs(dimensions, n - 1), x \in Slots(dimensions)}

\* C element type, Go element type, IsPrimitive and ArrayDimensions of the
\* members that get a slice accessor; &T(x) is not an expression Go takes the
\* address of, so two dimensions are for records
SliceElementTypes ==
    {<<"CXCompletionResult", "CompletionResult", FALSE, 1>>,
     <<"CXCompletionResult", "CompletionResult", FALSE, 2>>,
     <<"short", "int16", TRUE, 1>>,
     <<"void", "unsafe.Pointer", TRUE, 1>>}

SliceReturns ==
    {FunctionSliceReturn("Results",
                         [Name |-> "ccr", Type |-> [ZeroMainType EXCEPT !.Name = "CodeCompleteResults"]],
                         "Results", "NumResults", e[1], e[2], e[3], e[4], size) :
        e \in SliceElementTypes, size \in {-1} \cup 0..MaxLength}

\* the C struct behind the receiver: a member of constant array type holds
\* its ArraySize slots itself; any other member with a slice accessor is a
\* pointer to as many slots as the sibling size field says
NativeStructs(fs) ==
    {(fs.Member :> m) @@ (fs.SizeMember :> n) :
        <<m, n>> \in
            IF fs.ArraySize # -1
            THEN {<<[kind |-> "array", slots |-> ss], n>> :
                    ss \in SlotSeqs(fs.ArrayDimensions, fs.ArraySize), n \in 0..MaxLength}
            ELSE UNION {{<<[kind |-> "pointer", slots |-> ss], n>> :
                           ss \in SlotSeqs(fs.ArrayDimensions, n)} : n \in 0..MaxLength}}

InitSlice ==
    /\ lengthCName = ""
    /\ pan = NotCalled
    /\ cType = NoCursor.ResultType
    /\ typ = NotResolved
    /\ cursor = NoCursor
    /\ handled = NotHandled
    /\ genArgs = NoGenArgs
    /\ f = NoFunction
    /\ astFunc = NoAST
    /\ \E fs \in SliceReturns : \E c \in NativeStructs(fs) : fsr = [f |-> fs, c |-> c]
    /\ accessor = NoAccessor
    /\ done = {}

CallGenerateFunctionSliceReturn ==
    /\ accessor.pc = "none"
    /\ accessor' = [accessor EXCEPT !.code = generateFunctionSliceReturn(fsr.f),
                                    !.pc = "generated"]
    /\ done' = done \cup {"generateFunctionSliceReturn"}
    /\ UNCHANGED <<lengthCName, pan, cType, typ, cursor, handled, genArgs, f, astFunc, fsr>>

\* "sc := []T{}", "length := ..." and "goslice := ..."
AccessorEnter ==
    /\ accessor.pc = "generated"
    /\ accessor' = [accessor EXCEPT
                      !.pc = "loop",
                      !.sc = <<>>,
                      !.is = 0,
                      !.length = IF accessor.code.Length.Literal
                                 THEN accessor.code.Length.Value
                                 ELSE fsr.c[accessor.code.Length.Member]]
    /\ UNCHANGED <<lengthCName, pan, cType, typ, cursor, handled, genArgs, f, astFunc, fsr, done>>

\* goslice is a view of the memory at the address of the member field
ViewedField == fsr.c[accessor.code.View.AddressOf]

\* goslice[is]: a slot of the array when the field is the array; when the
\* field is a pointer, the bytes of that pointer and of what follows it in
\* memory, read as a slot
GoSliceRead(is) ==
    IF ViewedField.kind = "array"
    THEN {ViewedField.slots[is + 1]}
    ELSE Slots(fsr.f.ArrayDimensions)

\* the value appended for a slot read from goslice
AccessorElement(slot) ==
    [Pointer |-> accessor.code.Element.AddressOf,
     Type |-> accessor.code.Element.Name,
     Value |-> IF accessor.code.Element.Deref THEN slot.ptr ELSE slot]

\* one iteration of "for is := 0; is < length; is++ { sc = append(sc, ...) }"
AccessorAppend ==
    /\ accessor.pc = "loop"
    /\ accessor.is < accessor.length
    /\ \E slot \in GoSliceRead(accessor.is) :
         accessor' = [accessor EXCEPT !.sc = Append(accessor.sc, AccessorElement(slot)),
                                      !.is = accessor.is + 1]
    /\ UNCHANGED <<lengthCName, pan, cType, typ, cursor, handled, genArgs, f, astFunc, fsr, done>>

\* "*goslice[is]" of memory past a pointer field that is read as a pointer
AccessorFault ==
    /\ accessor.pc = "loop"
    /\ accessor.is < accessor.length
    /\ accessor.is >= 1
    /\ ViewedField.kind = "pointer"
    /\ accessor.code.Element.Deref
    /\ accessor' = [accessor EXCEPT !.pc = "fault"]
    /\ UNCHANGED <<lengthCName, pan, cType, typ, cursor, handled, genArgs, f, astFunc, fsr, done>>

\* "return sc"
AccessorReturn ==
    /\ accessor.pc = "loop"
    /\ accessor.is >= accessor.length
    /\ accessor' = [accessor EXCEPT !.pc = "returned"]
    /\ UNCHANGED <<lengthCName, pan, cType, typ, cursor, handled, genArgs, f, astFunc, fsr, done>>

NextSlice ==
    \/ CallGenerateFunctionSliceReturn
    \/ AccessorEnter
    \/ AccessorAppend
    \/ AccessorFault
    \/ AccessorReturn

SpecSlice == InitSlice /\ [][NextSlice]_vars

(***************************************************************************)
(* Properties of the type mapper                                           *)
(***************************************************************************)
PointerLayers(t) == Cardinality({i \in 1..Len(t.layers) : t.layers[i].kind = TK_Pointer})

BaseOf(t) == [layers |-> <<>>, base |-> t.base]

ResolvedOk == "typeFromClangType" \in done /\ typ.err = ""

\* C6: a successfully resolved type has the pointer level of its base type plus
\* one for every pointer layer; array and unexposed layers add nothing, T**
\* has pointerDepth(T) + 2, and the level is never negative.
C6_PointerDepthAdditive ==
    ResolvedOk =>
        /\ typ.typ.PointerLevel
             = typeFromClangType(BaseOf(cType)).typ.PointerLevel + PointerLayers(cType)
        /\ typ.typ.PointerLevel >= 0

C6_Witness ==
    /\ ResolvedOk
    /\ cType.layers = <<Layer(TK_Pointer, -1), Layer(TK_ConstantArray, 4), Layer(TK_Pointer, -1)>>
    /\ typ.typ.PointerLevel = 2

\* some type reached through array-element, pointee or canonical-form
\* recursion, the type itself included, has a kind without a case
ReachesUnhandledKind(t) == t.base.kind \notin HandledKinds

\* C7: typeFromClangType returns an error and the empty Type whenever the type
\* or a type reached from it has an unhandled kind, handleFunctionCursor then
\* panics instead of using the Type, and every Type returned without an error
\* has a non-empty GoName.
C7_UnhandledFailsAndNamed ==
    /\ "typeFromClangType" \in done =>
          /\ ReachesUnhandledKind(cType) => typ.err # "" /\ typ.typ = ZeroType
          /\ typ.err = "" => typ.typ.GoName # ""
    /\ ("handleFunctionCursor" \in done /\ ReachesUnhandledKind(cursor.ResultType)) =>
          handled.panic /\ f = NoFunction

IntegerWidth(kind) ==
    CASE kind \in {"TK_Char_S", "TK_Char_U"} -> "8"
      [] kind \in {"TK_Short", "TK_UShort", "TK_Int", "TK_UInt"} -> "16"
      [] kind \in {"TK_Long", "TK_ULong"} -> "32"
      [] kind \in {"TK_LongLong", "TK_ULongLong"} -> "64"

IntegerUnsigned(kind) ==
    kind \in {"TK_Char_U", "TK_UShort", "TK_UInt", "TK_ULong", "TK_ULongLong"}

\* C9: an integer kind resolves to the Go integer of its fixed width (char 8,
\* short and int 16, long 32, long long 64), unsigned for the unsigned kinds,
\* primitive, with pointer level 0 and no array size.
C9_IntegerWidths ==
    ("typeFromClangType" \in done /\ cType.layers = <<>> /\ Kind(cType) \in IntegerKinds) =>
        /\ typ.err = ""
        /\ typ.typ.GoName = (IF IntegerUnsigned(Kind(cType)) THEN "uint" ELSE "int")
                               \o IntegerWidth(Kind(cType))
        /\ typ.typ.IsPrimitive
        /\ typ.typ.PointerLevel = 0
        /\ typ.typ.ArraySize = -1
        /\ ~typ.typ.IsArray

C9_Witness ==
    /\ "typeFromClangType" \in done
    /\ cType.layers = <<>>
    /\ Kind(cType) = "TK_UInt"
    /\ typ.typ.GoName = GoUInt16

(***************************************************************************)
(* Properties of the naming heuristic                                      *)
(***************************************************************************)
\* the rule the heuristic is specified to take for a name, 0 for no match
DeriveRule(name) ==
    IF HasPrefix(name, "num_") THEN 1
    ELSE IF HasPrefix(name, "num") THEN 2
    ELSE IF HasPrefix(name, "Num") /\ Len(name) > 3 /\ SubSeq(name, 4, 4) \in UpperLetters THEN 3
    ELSE IF HasSuffix(name, "_size") THEN 4
    ELSE 0

DeriveResult(name) ==
    CASE DeriveRule(name) = 1 -> SubSeq(name, 5, Len(name))
      [] DeriveRule(name) = 2 -> SubSeq(name, 4, Len(name))
      [] DeriveRule(name) = 3 -> SubSeq(name, 4, Len(name))
      [] DeriveRule(name) = 4 -> SubSeq(name, 1, Len(name) - 5)
      [] DeriveRule(name) = 0 -> ""

\* C8: ArrayNameFromLength returns what the first applicable rule of num_, num,
\* Num (before an upper-case letter), _size gives, and no match (the empty
\* string) when no rule applies.
C8_FirstRuleWins ==
    "ArrayNameFromLength" \in done =>
        /\ ~pan.panic
        /\ pan.value = DeriveResult(lengthCName)

(***************************************************************************)
(* Properties of generateFunction                                          *)
(***************************************************************************)
\* C1: generateFunction turns the return type into bool exactly when the name
\* begins with "has" or "is" and the mapped type is the 16-bit integer the
\* mapper gives native int / unsigned int, and leaves it unchanged otherwise.
C1_BoolCoercion ==
    "generateFunction" \in done =>
        f.ReturnType.Name =
            IF (HasPrefix(genArgs.name, "has") \/ HasPrefix(genArgs.name, "is"))
               /\ genArgs.typ.Name \in {GoInt16, GoUInt16}
            THEN GoBool
            ELSE genArgs.typ.Name

(***************************************************************************)
(* Properties of generateASTFunction                                       *)
(***************************************************************************)
\* how often the node c occurs in the node e
RECURSIVE Occurs(_, _), OccursIn(_, _)
Occurs(e, c) ==
    IF e = c THEN 1
    ELSE CASE e.node = "SelectorExpr" -> Occurs(e.X, c)
           [] e.node = "CallExpr" -> Occurs(e.Fun, c) + OccursIn(e.Args, c)
           [] e.node = "UnaryExpr" -> Occurs(e.X, c)
           [] e.node = "BinaryExpr" -> Occurs(e.X, c) + Occurs(e.Y, c)
           [] e.node = "CompositeLit" -> Occurs(e.Type, c) + OccursIn(e.Elts, c)
           [] e.node = "DeferStmt" -> Occurs(e.Call, c)
           [] e.node = "AssignStmt" -> OccursIn(e.Rhs, c)
           [] e.node = "ExprStmt" -> Occurs(e.X, c)
           [] e.node = "ReturnStmt" -> OccursIn(e.Results, c)
           [] OTHER -> 0
OccursIn(es, c) == IF es = <<>> THEN 0 ELSE Occurs(Head(es), c) + OccursIn(Tail(es), c)

Generated == "generateASTFunction" \in done
Body == astFunc.astFunc.Body
NumParams == Len(f.Parameters)

\* the statement of the body that holds the native call
CallStmt == CHOOSE j \in 1..Len(Body) : Occurs(Body[j], astFunc.call) > 0

IsReceiverParam(i) == i = 1 /\ f.Receiver.Name # ""
IsOutParam(i) == ~IsReceiverParam(i) /\ f.Parameters[i].Type.IsReturnArgument
IsInputParam(i) == ~IsReceiverParam(i) /\ ~f.Parameters[i].Type.IsReturnArgument
OutParams == {i \in 1..NumParams : IsOutParam(i)}
OutRank(i) == Cardinality({j \in 1..i : IsOutParam(j)})
InputRank(i) == Cardinality({j \in 1..i : IsInputParam(j)})
HasPrimary == f.ReturnType.Name # "void"
Var(i) == Ident(f.Parameters[i].Name)

\* the type a return argument is declared to return
OutType(i) ==
    Ident(IF f.Parameters[i].Type.Name = "cxstring" THEN "string"
          ELSE f.Parameters[i].Type.Name)

\* the expression e of the return statement gives the value of the variable of
\* parameter i (and is not the primary result, which holds the call)
ReturnsVariable(e, i) == Occurs(e, Var(i)) > 0 /\ Occurs(e, astFunc.call) = 0

\* C2: an out-parameter is left out of the parameter list, declared as a local
\* variable before the native call, passed at its own position as the address
\* of that variable, and has exactly one declared return type and one
\* expression of the return statement; the other non-receiver parameters are
\* the parameter list, in native order.
C2_OutParameters ==
    Generated =>
        /\ \A i \in OutParams :
              /\ \A k \in 1..Len(astFunc.astFunc.Params) :
                    astFunc.astFunc.Params[k].Names # <<Var(i)>>
              /\ \E j \in 1..(CallStmt - 1) :
                    Body[j].node = "DeclStmt" /\ Body[j].Names = <<Var(i)>>
              /\ astFunc.call.Args[i].node = "UnaryExpr"
              /\ astFunc.call.Args[i].Op = "&"
              /\ \/ astFunc.call.Args[i].X = Var(i)
                 \/ astFunc.call.Args[i].X = SelectorExpr(Var(i), "c")
              /\ Cardinality({k \in 1..Len(astFunc.retur.Results) :
                                ReturnsVariable(astFunc.retur.Results[k], i)}) = 1
              /\ Body[Len(Body)] = astFunc.retur
        /\ OutParams # {} =>
              /\ Len(astFunc.astFunc.Results)
                   = Cardinality(OutParams) + (IF HasPrimary THEN 1 ELSE 0)
              /\ Len(astFunc.retur.Results) = Len(astFunc.astFunc.Results)
        /\ Len(astFunc.astFunc.Params) = InputRank(NumParams)
        /\ \A i \in 1..NumParams :
              IsInputParam(i) =>
                  astFunc.astFunc.Params[InputRank(i)]
                    = Field(<<Var(i)>>, Ident(f.Parameters[i].Type.Name))

C2_Witness ==
    /\ Generated
    /\ NumParams = 2
    /\ IsInputParam(1)
    /\ IsOutParam(2)
    /\ f.ReturnType.Name = "void"
    /\ Len(astFunc.astFunc.Params) = 1
    /\ Len(astFunc.astFunc.Results) = 1

\* the expression the return statement gives for the primary result
IsPrimaryResult(e) == Occurs(e, Ident("o")) + Occurs(e, astFunc.call) > 0

PrimaryType == Ident(IF f.ReturnType.Name = "cxstring" THEN "string" ELSE f.ReturnType.Name)

\* C3 as stated: with a non-void primary result and out-parameters, the declared
\* return types and the return statement list the primary result first and
\* then the out-parameters in declaration order.
C3_PrimaryFirst ==
    (Generated /\ HasPrimary /\ OutParams # {}) =>
        /\ astFunc.astFunc.Results[1].Type = PrimaryType
        /\ IsPrimaryResult(astFunc.retur.Results[1])
        /\ \A i \in OutParams :
              /\ astFunc.astFunc.Results[OutRank(i) + 1].Type = OutType(i)
              /\ ReturnsVariable(astFunc.retur.Results[OutRank(i) + 1], i)

\* C3 as amended: the out-parameters come first, in declaration order, and
\* the primary result is last, in both lists.
C3_PrimaryLast ==
    (Generated /\ HasPrimary /\ OutParams # {}) =>
        /\ Len(astFunc.astFunc.Results) = Cardinality(OutParams) + 1
        /\ Len(astFunc.retur.Results) = Cardinality(OutParams) + 1
        /\ astFunc.astFunc.Results[Cardinality(OutParams) + 1].Type = PrimaryType
        /\ IsPrimaryResult(astFunc.retur.Results[Cardinality(OutParams) + 1])
        /\ \A i \in OutParams :
              /\ astFunc.astFunc.Results[OutRank(i)].Type = OutType(i)
              /\ ReturnsVariable(astFunc.retur.Results[OutRank(i)], i)
              /\ ~IsPrimaryResult(astFunc.retur.Results[OutRank(i)])

C3_Witness ==
    /\ Generated
    /\ f.ReturnType.Name = "uint16"
    /\ Cardinality(OutParams) = 2
    /\ f.Parameters[1].Type.Name = "File"
    /\ f.Parameters[2].Type.Name = "cxstring"
    /\ astFunc.retur.Results[3] = Ident("o")

\* the transient C copy of the string parameter i
CopyOf(i) == Ident("c_" \o f.Parameters[i].Name)

\* parameter i gets a C copy allocated, its release deferred right after, both
\* before the native call, and the call receives the copy
MarshalledAsCString(i) ==
    /\ \E j \in 1..(CallStmt - 2) :
          /\ Body[j] = [node |-> "AssignStmt", Lhs |-> <<CopyOf(i)>>, Tok |-> ":=",
                        Rhs |-> <<doCCast("CString", <<Var(i)>>)>>]
          /\ Body[j + 1] = [node |-> "DeferStmt",
                            Call |-> doCCast("free", <<doCall("unsafe", "Pointer", <<CopyOf(i)>>)>>)]
    /\ astFunc.call.Args[i] = CopyOf(i)
    /\ Occurs(astFunc.call.Args[i], Var(i)) = 0

\* C4 as stated: every parameter that is a raw character pointer, spelled
\* char * or const char *, is marshalled through a transient C copy that is
\* allocated and released (deferred) before the native call.
C4_CharPointersCopied ==
    Generated =>
        \A i \in 1..NumParams :
            f.Parameters[i].Type.CName \in {"char *", "const char *"} => MarshalledAsCString(i)

\* C4 as amended: this holds of the primitive parameters spelled exactly
\* const char *; a parameter spelled char * gets no copy.
C4_ConstCharPointersCopied ==
    Generated =>
        \A i \in 1..NumParams :
            /\ (f.Parameters[i].Type.CName = "const char *"
                  /\ f.Parameters[i].Type.Primitive # "") => MarshalledAsCString(i)
            /\ f.Parameters[i].Type.CName = "char *" =>
                  /\ Occurs(astFunc.call.Args[i], Var(i)) = 1
                  /\ \A j \in 1..Len(Body) : Occurs(Body[j], CopyOf(i)) = 0

C4_Witness ==
    /\ Generated
    /\ NumParams = 2
    /\ f.Parameters[1].Type.CName = "const char *"
    /\ f.Parameters[2].Type.CName = "char *"
    /\ ~f.Parameters[2].Type.IsReturnArgument
    /\ MarshalledAsCString(1)
    /\ ~MarshalledAsCString(2)

\* C5: with a cxstring return type, with or without out-parameters, the body
\* stores the call in the cxstring o, then defers o.Dispose(), then returns
\* o.String(); the primary result is declared string and the declared types
\* of the out-parameters stay what they were.
C5_DisposableStringReturn ==
    (Generated /\ f.ReturnType.Name = "cxstring") =>
        /\ Body[CallStmt] = AssignStmt("o", CompositeLit(Ident("cxstring"), <<astFunc.call>>))
        /\ CallStmt + 1 < Len(Body)
        /\ Body[CallStmt + 1] = DeferStmt(doCall("o", "Dispose", <<>>))
        /\ Body[Len(Body)] = astFunc.retur
        /\ astFunc.retur.Results[Len(astFunc.retur.Results)] = doCall("o", "String", <<>>)
        /\ Len(astFunc.astFunc.Results) = Cardinality(OutParams) + 1
        /\ astFunc.astFunc.Results[Len(astFunc.astFunc.Results)].Type = Ident("string")
        /\ \A k \in 1..Len(astFunc.astFunc.Results) :
              astFunc.astFunc.Results[k].Type # Ident("cxstring")
        /\ \A i \in OutParams : astFunc.astFunc.Results[OutRank(i)].Type = OutType(i)

C5_Witness ==
    /\ Generated
    /\ f.ReturnType.Name = "cxstring"
    /\ Cardinality(OutParams) = 1
    /\ \E i \in OutParams : f.Parameters[i].Type.Name = "File"
    /\ Len(astFunc.astFunc.Results) = 2

\* C10: with a receiver declared and at least one parameter, the first
\* parameter is the method receiver, is not in the parameter list, and is
\* still the first argument of the native call, under the receiver's name;
\* with no parameter no receiver is emitted.
C10_ReceiverPromotion ==
    Generated =>
        /\ (f.Receiver.Name # "" /\ NumParams > 0) =>
              /\ astFunc.astFunc.Recv
                   = <<Field(<<Ident(f.Receiver.Name)>>, Ident(f.Receiver.Type.Name))>>
              /\ f.Parameters[1].Name = f.Receiver.Name
              /\ \A k \in 1..Len(astFunc.astFunc.Params) :
                    astFunc.astFunc.Params[k].Names # <<Ident(f.Receiver.Name)>>
              /\ Len(astFunc.astFunc.Params) + Len(astFunc.astFunc.Results)
                   = (NumParams - 1) + (IF HasPrimary THEN 1 ELSE 0)
              /\ Len(astFunc.call.Args) = NumParams
              /\ Occurs(astFunc.call.Args[1], Ident(f.Receiver.Name)) = 1
        /\ NumParams = 0 => astFunc.astFunc.Recv = <<>>

C10_Witness ==
    /\ Generated
    /\ f.Receiver.Name = "f"
    /\ NumParams = 2
    /\ Len(astFunc.astFunc.Recv) = 1
    /\ Len(astFunc.astFunc.Params) = 1
    /\ astFunc.call.Args[1] = SelectorExpr(Ident("f"), "c")

C10_WitnessNoParameters ==
    /\ Generated
    /\ f.Receiver.Name = "tu"
    /\ NumParams = 0
    /\ astFunc.astFunc.Recv = <<>>

(***************************************************************************)
(* Properties of the slice accessor                                        *)
(***************************************************************************)
\* the slots of the native array the member is
SourceSlots == fsr.c[fsr.f.Member].slots

\* the fixed array length when it is set, else the sibling size field
SliceLength ==
    IF fsr.f.ArraySize # -1 THEN fsr.f.ArraySize ELSE fsr.c[fsr.f.SizeMember]

\* the element an accessor is to give for source slot i
SliceElementOf(i) ==
    [Pointer |-> fsr.f.ArrayDimensions = 2,
     Type |-> fsr.f.ElementType,
     Value |-> IF fsr.f.ArrayDimensions = 2 THEN SourceSlots[i].ptr ELSE SourceSlots[i]]

\* C11: the accessor returns, and returns exactly as many elements as the
\* fixed array length when that is set (0 included) and as the sibling size
\* field says otherwise; element i is made from source slot i, in ascending
\* order; with two dimensions each element is a pointer and is read through
\* one more indirection of the slot.
C11_SliceElements ==
    /\ accessor.pc # "fault"
    /\ accessor.pc = "loop" => Len(accessor.sc) = accessor.is
    /\ accessor.pc \in {"loop", "returned"} =>
         \A i \in 1..Len(accessor.sc) :
             i <= Len(SourceSlots) /\ accessor.sc[i] = SliceElementOf(i)
    /\ accessor.pc = "returned" => Len(accessor.sc) = SliceLength

(***************************************************************************)
(* Further properties of typeFromClangType                                 *)
(***************************************************************************)
\* the fields of a Type that the claims about the mapper speak of
Descriptor(t) ==
    [CGoName |-> t.CGoName, GoName |-> t.GoName, PointerLevel |-> t.PointerLevel,
     IsPrimitive |-> t.IsPrimitive, IsEnumLiteral |-> t.IsEnumLiteral,
     IsArray |-> t.IsArray, ArraySize |-> t.ArraySize,
     IsFunctionPointer |-> t.IsFunctionPointer]

\* C12: the Type resolved for a type of unexposed kind is the Type resolved
\* for its canonical type: CGoName, GoName, PointerLevel, IsPrimitive,
\* IsEnumLiteral, IsArray, ArraySize and IsFunctionPointer are all equal.
C12_UnexposedAdoptsCanonical ==
    (ResolvedOk /\ Kind(cType) = TK_Unexposed) =>
        Descriptor(typ.typ) = Descriptor(typeFromClangType(Inner(cType)).typ)

\* a record, or a pointer (to a pointer ...) to a record
IsRecordOrPointerToRecord(t) ==
    /\ t.base.kind = TK_Record
    /\ \A i \in 1..Len(t.layers) : t.layers[i].kind = TK_Pointer

\* C13: a record resolves to a Type that is not primitive and has an empty
\* CGoName, a pointer to a record likewise, and bool resolves to an empty
\* CGoName.
C13_CompositeNoMarshalName ==
    ResolvedOk =>
        /\ IsRecordOrPointerToRecord(cType) =>
              (~typ.typ.IsPrimitive /\ typ.typ.CGoName = "")
        /\ Kind(cType) = TK_Bool => typ.typ.CGoName = ""

\* C13 as amended: a record resolves to a Type that is not primitive and whose
\* CGoName is the type spelling of the record's declaration, a pointer to a
\* record carries the same CGoName, and bool resolves to an empty CGoName.
C13_RecordMarshalName ==
    ResolvedOk =>
        /\ IsRecordOrPointerToRecord(cType) =>
              (~typ.typ.IsPrimitive /\ typ.typ.CGoName = cType.base.decl)
        /\ Kind(cType) = TK_Bool => typ.typ.CGoName = ""

C13_Witness ==
    /\ ResolvedOk
    /\ cType.layers = <<Layer(TK_Pointer, -1)>>
    /\ cType.base.kind = TK_Record
    /\ typ.typ.CGoName = "CXCursor"
    /\ typ.typ.PointerLevel = 1
    /\ ~typ.typ.IsPrimitive

(***************************************************************************)
(* Totality of the naming heuristic                                        *)
(***************************************************************************)
\* C14: ArrayNameFromLength returns for every name, a derived name or the
\* empty string, and never panics.
C14_NeverPanics ==
    "ArrayNameFromLength" \in done => ~pan.panic

(***************************************************************************)
(* Well-formedness of the returns of generateASTFunction                   *)
(***************************************************************************)
\* one per return argument plus one for a function return type other than void
NumReturns == Cardinality(OutParams) + (IF HasPrimary THEN 1 ELSE 0)

ReturnStmts == {j \in 1..Len(Body) : Body[j].node = "ReturnStmt"}

\* C15: astFunc.Type.Results.List and retur.Results both have one entry per
\* return argument plus one for a non-void return type, the body holds a
\* return statement (retur, as its last statement) exactly when that number
\* is positive, and the call of the C function occurs exactly once in the body.
C15_ReturnsWellFormed ==
    Generated =>
        /\ Len(astFunc.astFunc.Results) = NumReturns
        /\ Len(astFunc.retur.Results) = NumReturns
        /\ NumReturns > 0 <=> ReturnStmts # {}
        /\ ReturnStmts # {} =>
              (ReturnStmts = {Len(Body)} /\ Body[Len(Body)] = astFunc.retur)
        /\ OccursIn(Body, astFunc.call) = 1

C15_Witness ==
    /\ Generated
    /\ ~HasPrimary
    /\ Cardinality(OutParams) = 2
    /\ Len(astFunc.astFunc.Results) = 2
    /\ Len(astFunc.retur.Results) = 2
    /\ \E j \in 1..Len(Body) : Body[j] = ExprStmt(astFunc.call)
    /\ Body[Len(Body)].node = "ReturnStmt"

C15_WitnessNoReturn ==
    /\ Generated
    /\ NumReturns = 0
    /\ NumParams = 2
    /\ ReturnStmts = {}
    /\ Body[Len(Body)] = ExprStmt(astFunc.call)

====
